---- MODULE Spec2Model ----
(***************************************************************************)
(* Resumable, deduplicating crawl of the pharmacy registry:                *)
(* scraper/main.py (main, scrape_prefecture), scraper/utils.py (ledger     *)
(* CSV), scraper/progress_manager.py (ProgressManager, Statistics),        *)
(* scraper/parser.py (listing, detail, pagination) and scraper/browser.py  *)
(* (setup_search_conditions).  One process invocation is one "run"; the    *)
(* files on disk survive from one run to the next, the memory does not.    *)
(***************************************************************************)
EXTENDS Integers, Sequences, FiniteSets, TLC

----------------------------------------------------------------------------
(* Bounds of the model *)

\* number of process invocations explored
MaxRuns == 3

\* number of driver failures explored per run after the search session is
\* set up (the failures of the session setup itself are not limited)
MaxFaults == 2

----------------------------------------------------------------------------
(* Program constants *)

MAX_RETRIES == 3

\* the region table, in insertion order (a prefix of the real table)
PREFECTURES == <<"01", "02">>

Codes == {PREFECTURES[i] : i \in 1..Len(PREFECTURES)}

\* the fieldnames row written by csv.DictWriter.writeheader
CSV_FIELDNAMES == [id |-> "id", prescription_count |-> "prescription_count"]

----------------------------------------------------------------------------
(* The upstream registry: per region a sequence of listing pages, each     *)
(* with its rows and the state of its "next" control; per id the text of   *)
(* the detail field ("" when the detail page has no such field).           *)

Page(items, next) == [items |-> items, next |-> next]

Sites ==
  { [l \in Codes |->
       IF l = "01"
       THEN << Page(<<"A1", "A2", "A3">>, "enabled"),
               Page(<<"A2">>, "disabled") >>
       ELSE << Page(<<"A3">>, "absent") >>],
    [l \in Codes |->
       IF l = "01"
       THEN << Page(<<"A3", "A1">>, "absent") >>
       ELSE << Page(<<"A2">>, "enabled"),
               Page(<<"A1", "A2">>, "disabled") >>],
    [l \in Codes |->
       IF l = "01"
       THEN << Page(<<"A1">>, "absent") >>
       ELSE << Page(<<>>, "absent") >>] }

DetailField(id) ==
  CASE id = "A1" -> "50"
    [] id = "A2" -> "120"
    [] OTHER -> ""

----------------------------------------------------------------------------
VARIABLES
  site,             \* the upstream registry, unchanged over all runs
  csv_files,        \* disk: per region the ledger file
  progress_file,    \* disk: progress.json
  stats_file,       \* disk: statistics.json as written by the current run
                    \* (what an earlier run left there is read by nothing)
  run,              \* number of process invocations started
  pc,               \* position of the running process
  progress_data,    \* ProgressManager.progress_data
  statistics,       \* the Statistics object
  driver,           \* the browser: alive or quit, and the view it shows
  cur,              \* index in PREFECTURES of the region being processed
  existing_ids,     \* scrape_prefecture: existing_ids
  attempt,          \* setup_search_conditions: failed attempts so far
  page_num,         \* scrape_prefecture: page_num
  prefecture_count, \* scrape_prefecture: prefecture_count
  pharmacy_list,    \* scrape_prefecture: pharmacy_list
  idx,              \* position of the item loop in pharmacy_list
  count,            \* scrape_prefecture: count of the current item
  file_exists,      \* append_to_csv: file_exists
  current_list_url, \* scrape_prefecture: current_list_url (the page shown)
  progress,         \* main: (completed, total, percentage) last computed
  faults,           \* driver failures of this run after session setup
  obs               \* observations of the current run, for the properties

disk == <<csv_files, progress_file, stats_file>>
region_locals == <<existing_ids, attempt, page_num, prefecture_count,
                   pharmacy_list, idx, count, file_exists, current_list_url>>
vars == <<site, csv_files, progress_file, stats_file, run, pc, progress_data,
          statistics, driver, cur, existing_ids, attempt, page_num,
          prefecture_count, pharmacy_list, idx, count, file_exists,
          current_list_url, progress, faults, obs>>

----------------------------------------------------------------------------
(* Ledger: scraper/utils.py *)

NoFile == [exists |-> FALSE, lines |-> <<>>]

Row(id, c) == [id |-> id, prescription_count |-> c]

\* os.path.exists + open(filename, 'a'): creates the file when it is absent
OpenAppend(f) == [exists |-> TRUE, lines |-> f.lines]

WriteLine(f, line) == [exists |-> TRUE, lines |-> Append(f.lines, line)]

\* csv.DictReader: the first line names the fields, row.get('id') is the
\* value under the field named 'id' (None, here "", when no field has it)
RowGetId(fieldnames, line) ==
  IF fieldnames.id = "id" THEN line.id
  ELSE IF fieldnames.prescription_count = "id" THEN line.prescription_count
  ELSE ""

\* defect: the first line is read as a record, not as the field names
get_existing_ids_reading_header(f) ==
  IF ~f.exists THEN {}
  ELSE { f.lines[i].id : i \in 1..Len(f.lines) } \ {""}

get_existing_ids(f) ==
  IF ~f.exists THEN {}
  ELSE IF Len(f.lines) <= 1 THEN {}
  ELSE { RowGetId(f.lines[1], f.lines[i]) : i \in 2..Len(f.lines) } \ {""}

\* defect: a file that exists is taken as valid, whatever it holds
is_csv_valid_any_file(f) == f.exists

is_csv_valid(f) ==
  IF ~f.exists THEN FALSE ELSE Len(f.lines) > 1

----------------------------------------------------------------------------
(* ProgressManager and Statistics: scraper/progress_manager.py *)

EmptyMap == [x \in {} |-> "DONE"]

NoProgressFile == [exists |-> FALSE, valid |-> TRUE, data |-> EmptyMap]

\* ProgressManager._load: a missing or unreadable file gives the empty map
LoadProgress(pf) ==
  IF pf.exists /\ pf.valid THEN pf.data ELSE EmptyMap

is_done(data, pref_code) ==
  pref_code \in DOMAIN data /\ data[pref_code] = "DONE"

SetDone(data, pref_code) ==
  [x \in DOMAIN data \cup {pref_code} |->
     IF x = pref_code THEN "DONE" ELSE data[x]]

\* defect: the ratio is truncated before it is scaled
calculate_progress_truncating(data, total_prefectures) ==
  LET completed == Cardinality({x \in DOMAIN data : data[x] = "DONE"})
  IN  << completed, total_prefectures,
         IF total_prefectures > 0
         THEN (completed \div total_prefectures) * 100 ELSE 0 >>

calculate_progress(data, total_prefectures) ==
  LET completed == Cardinality({x \in DOMAIN data : data[x] = "DONE"})
  IN  << completed, total_prefectures,
         IF total_prefectures > 0
         THEN (completed * 100) \div total_prefectures ELSE 0 >>

NewStatistics ==
  [total_pharmacies |-> 0, total_with_data |-> 0, total_without_data |-> 0,
   errors |-> 0, skipped |-> 0,
   prefecture_stats |-> [x \in {} |-> [total |-> 0, with_data |-> 0]]]

\* defect: a pharmacy without data is left out of the counters of its region
add_pharmacy_region_with_data_only(s, pref_code, has_data) ==
  LET old == IF pref_code \in DOMAIN s.prefecture_stats
             THEN s.prefecture_stats[pref_code]
             ELSE [total |-> 0, with_data |-> 0]
      new == [total |-> old.total + (IF has_data THEN 1 ELSE 0),
              with_data |-> old.with_data + (IF has_data THEN 1 ELSE 0)]
  IN  [s EXCEPT
        !.total_pharmacies = @ + 1,
        !.total_with_data = @ + (IF has_data THEN 1 ELSE 0),
        !.total_without_data = @ + (IF has_data THEN 0 ELSE 1),
        !.prefecture_stats =
           [x \in DOMAIN s.prefecture_stats \cup {pref_code} |->
              IF x = pref_code THEN new ELSE s.prefecture_stats[x]]]

\* defect: has_data is not looked at, every pharmacy counts as with data
add_pharmacy_ignoring_flag(s, pref_code, has_data) ==
  LET old == IF pref_code \in DOMAIN s.prefecture_stats
             THEN s.prefecture_stats[pref_code]
             ELSE [total |-> 0, with_data |-> 0]
      new == [total |-> old.total + 1, with_data |-> old.with_data + 1]
  IN  [s EXCEPT
        !.total_pharmacies = @ + 1,
        !.total_with_data = @ + 1,
        !.prefecture_stats =
           [x \in DOMAIN s.prefecture_stats \cup {pref_code} |->
              IF x = pref_code THEN new ELSE s.prefecture_stats[x]]]

\* Statistics.add_pharmacy: attribute arithmetic without a call, one step
add_pharmacy(s, pref_code, has_data) ==
  LET old == IF pref_code \in DOMAIN s.prefecture_stats
             THEN s.prefecture_stats[pref_code]
             ELSE [total |-> 0, with_data |-> 0]
      new == [total |-> old.total + 1,
              with_data |-> old.with_data + (IF has_data THEN 1 ELSE 0)]
  IN  [s EXCEPT
        !.total_pharmacies = @ + 1,
        !.total_with_data = @ + (IF has_data THEN 1 ELSE 0),
        !.total_without_data = @ + (IF has_data THEN 0 ELSE 1),
        !.prefecture_stats =
           [x \in DOMAIN s.prefecture_stats \cup {pref_code} |->
              IF x = pref_code THEN new ELSE s.prefecture_stats[x]]]

\* defect: counting an error clears the count of the skipped items
add_error_clearing(s) == [s EXCEPT !.errors = @ + 1, !.skipped = 0]

add_error(s) == [s EXCEPT !.errors = @ + 1]

add_skip(s) == [s EXCEPT !.skipped = @ + 1]

NoStatsFile == [exists |-> FALSE, data |-> NewStatistics]

----------------------------------------------------------------------------
(* PageDriver and parser: scraper/parser.py, scraper/browser.py *)

NoDriver == [alive |-> FALSE, view |-> "blank", page |-> 0]

Show(view, page) == [alive |-> TRUE, view |-> view, page |-> page]

\* the rows of the listing page the browser shows
RowsShown(d, listing) ==
  IF d.view = "list" /\ d.page \in 1..Len(listing)
  THEN listing[d.page].items ELSE <<>>

\* extract_pharmacy_list: every row when the driver holds; when it raises at
\* row k the rows collected before it (the exception is swallowed)
extract_pharmacy_list(rows, failed_at) ==
  IF failed_at = 0 THEN rows ELSE SubSeq(rows, 1, failed_at - 1)

\* extract_prescription_count: the number in the labelled cell; "" when the
\* cell is missing and, the exception being swallowed, when the driver fails
extract_prescription_count(pharmacy_id, driver_ok) ==
  IF driver_ok THEN DetailField(pharmacy_id) ELSE ""

\* defect: the class of the parent of the next link is not looked at
has_next_page_any_link(control, driver_ok) ==
  IF ~driver_ok THEN FALSE
  ELSE IF control = "absent" THEN FALSE
  ELSE TRUE

\* has_next_page: a next link exists and its parent is not disabled; any
\* exception gives False
has_next_page(control, driver_ok) ==
  IF ~driver_ok THEN FALSE
  ELSE IF control = "absent" THEN FALSE
  ELSE IF control = "disabled" THEN FALSE
  ELSE TRUE

\* the control of the listing page shown (absent when no listing is shown)
ControlShown(d, listing) ==
  IF d.view = "list" /\ d.page \in 1..Len(listing)
  THEN listing[d.page].next ELSE "absent"

----------------------------------------------------------------------------
(* The bounded retries: scraper/browser.py *)

\* the outcomes of the successive page.evaluate calls of one safe_set_value
\* call (TRUE: the call returns, FALSE: it raises)
AllEvalOutcomes == [1..MAX_RETRIES -> BOOLEAN]

\* the outcomes drawn by the session setup: the first k calls raise, and
\* what a call after the first that returns would do is not drawn
EvalOutcomes == {[i \in 1..MAX_RETRIES |-> i > k] : k \in 0..MAX_RETRIES}

AllEvalsHold == [i \in 1..MAX_RETRIES |-> TRUE]

\* safe_set_value: True at the first evaluation that returns, one second of
\* sleep after each one that raises, False when all of them raised
safe_set_value(evals) ==
  LET good  == {i \in 1..MAX_RETRIES : evals[i]}
      first == IF good = {} THEN 0
               ELSE CHOOSE i \in good : \A j \in good : i <= j
  IN  [result |-> good # {},
       tries  |-> IF good = {} THEN MAX_RETRIES ELSE first,
       waits  |-> [i \in 1..(IF good = {} THEN MAX_RETRIES ELSE first - 1)
                     |-> 1]]

\* the script handed to page.evaluate: with the element it sets the value,
\* without it it does nothing, and the call returns in both cases
script_sets_value(element_present) == element_present

\* whether the field holds the value after a safe_set_value call that
\* returned r, the element being there or not during the call
value_set(r, element_present) ==
  r.result /\ script_sets_value(element_present)

\* the fields the session setup sets, in the order of the code
SetupFields == <<"todofukenCd", "iryoKikanShubetsuCd">>

\* defect: the wait shrinks from one attempt to the next
wait_time_shrinking(attempt_index) == 10 * (MAX_RETRIES - attempt_index)

\* setup_search_conditions: the wait after the failed attempt of this index
wait_time(attempt_index) == 10 * (attempt_index + 1)

\* the steps of one attempt of the session setup, in the order of the code
SetupSteps == <<"open", "set_region", "set_category", "click", "wait_result">>

\* what a safe_set_value call of the session setup can return
SetResults == {safe_set_value(evals) : evals \in EvalOutcomes}

SetAtOnce == safe_set_value(AllEvalsHold)

\* one pass of the try block: the steps run until the first that raises
\* (0: none does); a safe_set_value returning False raises in its step
setup_attempt(open_ok, region_set, category_set, click_ok, wait_ok) ==
  LET failed_at ==
        IF ~open_ok THEN 1
        ELSE IF ~region_set.result THEN 2
        ELSE IF ~category_set.result THEN 3
        ELSE IF ~click_ok THEN 4
        ELSE IF ~wait_ok THEN 5
        ELSE 0
  IN  [ok    |-> failed_at = 0,
       steps |-> IF failed_at = 0 THEN SetupSteps
                 ELSE SubSeq(SetupSteps, 1, failed_at)]

----------------------------------------------------------------------------
(* Observations of the current run (no program state) *)

NoObs ==
  [outcome  |-> [x \in Codes |-> "none"],
   attempts |-> 0,
   marks    |-> [x \in Codes |-> 0],
   ending   |-> "none",
   start    |-> [file |-> NoFile, ids |-> {}, data |-> EmptyMap,
                 statistics |-> NewStatistics],
   fetched  |-> <<>>,
   clicks   |-> 0,
   handled  |-> <<>>,
   missed   |-> 0,
   exit     |-> "none",
   steps    |-> <<>>,
   fields   |-> {},
   waits    |-> <<>>,
   started  |-> <<>>,
   paused   |-> TRUE,
   before   |-> [lines |-> <<>>, statistics |-> NewStatistics]]

region == PREFECTURES[cur]

InitLocals ==
  /\ existing_ids = {}
  /\ attempt = 0
  /\ page_num = 0
  /\ prefecture_count = 0
  /\ pharmacy_list = <<>>
  /\ idx = 0
  /\ count = ""
  /\ file_exists = FALSE
  /\ current_list_url = 0

ResetLocals ==
  /\ existing_ids' = {}
  /\ attempt' = 0
  /\ page_num' = 0
  /\ prefecture_count' = 0
  /\ pharmacy_list' = <<>>
  /\ idx' = 0
  /\ count' = ""
  /\ file_exists' = FALSE
  /\ current_list_url' = 0

Init ==
  /\ site \in Sites
  /\ csv_files = [x \in Codes |-> NoFile]
  /\ progress_file = NoProgressFile
  /\ stats_file = NoStatsFile
  /\ run = 0
  /\ pc = "Idle"
  /\ progress_data = EmptyMap
  /\ statistics = NewStatistics
  /\ driver = NoDriver
  /\ cur = 1
  /\ InitLocals
  /\ progress = <<0, 0, 0>>
  /\ faults = 0
  /\ obs = NoObs

----------------------------------------------------------------------------
(* main: lines 155-179, a new process *)
StartRun ==
  /\ pc = "Idle"
  /\ run < MaxRuns
  /\ run' = run + 1
  /\ progress_data' = LoadProgress(progress_file)
  /\ statistics' = NewStatistics
  /\ progress' = calculate_progress(progress_data', Len(PREFECTURES))
  /\ driver' = Show("blank", 0)
  /\ cur' = 1
  /\ pc' = "RegionInit"
  /\ ResetLocals
  /\ faults' = 0
  /\ obs' = NoObs
  /\ stats_file' = NoStatsFile
  /\ UNCHANGED <<site, csv_files, progress_file>>

\* defect: the mark alone is trusted, the Ledger is not looked at
RegionInitTrustsMark ==
  /\ pc = "RegionInit"
  /\ LET o == [obs EXCEPT !.start = [file |-> csv_files[region],
                                      ids |-> existing_ids',
                                      data |-> progress_data,
                                      statistics |-> statistics],
                          !.attempts = 0, !.fetched = <<>>, !.clicks = 0,
                          !.handled = <<>>, !.missed = 0,
                          !.exit = "none",
                          !.started = Append(@, region)]
     IN
     IF is_done(progress_data, region)
     THEN /\ existing_ids' = existing_ids
          /\ pc' = "RegionEnd"
          /\ obs' = [o EXCEPT !.outcome[region] = "SkippedAlreadyDone"]
     ELSE /\ existing_ids' = get_existing_ids(csv_files[region])
          /\ pc' = "Setup"
          /\ obs' = o
  /\ UNCHANGED <<site, disk, run, progress_data, statistics, driver, cur,
                 attempt, page_num, prefecture_count, pharmacy_list, idx,
                 count, file_exists, current_list_url, progress, faults>>

(* scrape_prefecture: lines 60-72, completion check and dedup set *)
RegionInit ==
  /\ pc = "RegionInit"
  /\ LET o == [obs EXCEPT !.start = [file |-> csv_files[region],
                                      ids |-> existing_ids',
                                      data |-> progress_data,
                                      statistics |-> statistics],
                          !.attempts = 0, !.fetched = <<>>, !.clicks = 0,
                          !.handled = <<>>, !.missed = 0,
                          !.exit = "none",
                          !.started = Append(@, region)]
     IN
     IF ~is_csv_valid(csv_files[region]) /\ is_done(progress_data, region)
     THEN /\ existing_ids' = get_existing_ids(csv_files[region])
          /\ pc' = "Setup"
          /\ obs' = o
     ELSE IF is_done(progress_data, region)
     THEN /\ existing_ids' = existing_ids
          /\ pc' = "RegionEnd"
          /\ obs' = [o EXCEPT !.outcome[region] = "SkippedAlreadyDone"]
     ELSE /\ existing_ids' = get_existing_ids(csv_files[region])
          /\ pc' = "Setup"
          /\ obs' = o
  /\ UNCHANGED <<site, disk, run, progress_data, statistics, driver, cur,
                 attempt, page_num, prefecture_count, pharmacy_list, idx,
                 count, file_exists, current_list_url, progress, faults>>

\* defect: the exception of a failed step is not caught in the attempt
SetupAttemptRaises ==
  /\ pc = "Setup"
  /\ attempt < MAX_RETRIES
  \* what happens after the step that raised is not drawn
  /\ \E open_ok \in BOOLEAN :
     \E region_set \in (IF open_ok THEN SetResults ELSE {SetAtOnce}) :
     \E category_set \in (IF open_ok /\ region_set.result
                          THEN SetResults ELSE {SetAtOnce}) :
     \E click_ok \in (IF open_ok /\ region_set.result /\ category_set.result
                      THEN BOOLEAN ELSE {TRUE}) :
     \E wait_ok \in (IF open_ok /\ region_set.result /\ category_set.result
                        /\ click_ok
                     THEN BOOLEAN ELSE {TRUE}) :
       LET a == setup_attempt(open_ok, region_set, category_set,
                              click_ok, wait_ok)
           n == Len(a.steps)
       IN
       \* wait_for_selector has seen the first field; nothing waits for
       \* the second
       \E second_present \in (IF a.ok THEN BOOLEAN ELSE {TRUE}) :
       /\ IF a.ok
          THEN \* return True: the loop variable is gone with the call
               /\ driver' = Show("list", 1)
               /\ pc' = "PageFetch"
               /\ page_num' = 1
               /\ prefecture_count' = 0
               /\ attempt' = 0
               /\ obs' = [obs EXCEPT
                    !.steps = a.steps,
                    !.fields =
                      {SetupFields[1]} \cup
                      (IF value_set(category_set, second_present)
                       THEN {SetupFields[2]} ELSE {})]
          ELSE /\ driver' = Show("base", 0)
               /\ pc' = "Except"
               /\ attempt' = attempt + 1
               /\ obs' = [obs EXCEPT !.attempts = @ + 1,
                                     !.steps = a.steps,
                                     !.waits = Append(@, wait_time(attempt))]
               /\ UNCHANGED <<page_num, prefecture_count>>
  /\ UNCHANGED <<site, disk, run, progress_data, statistics, cur,
                 existing_ids, pharmacy_list, idx, count, file_exists,
                 current_list_url, progress, faults>>

\* defect: each failed evaluation of a field consumes an attempt
SetupAttemptPerField ==
  /\ pc = "Setup"
  /\ attempt < MAX_RETRIES
  \* what happens after the step that raised is not drawn
  /\ \E open_ok \in BOOLEAN :
     \E region_set \in (IF open_ok THEN SetResults ELSE {SetAtOnce}) :
     \E category_set \in (IF open_ok /\ region_set.result
                          THEN SetResults ELSE {SetAtOnce}) :
     \E click_ok \in (IF open_ok /\ region_set.result /\ category_set.result
                      THEN BOOLEAN ELSE {TRUE}) :
     \E wait_ok \in (IF open_ok /\ region_set.result /\ category_set.result
                        /\ click_ok
                     THEN BOOLEAN ELSE {TRUE}) :
       LET a == setup_attempt(open_ok, region_set, category_set,
                              click_ok, wait_ok)
           n == Len(a.steps)
       IN
       \* wait_for_selector has seen the first field; nothing waits for
       \* the second
       \E second_present \in (IF a.ok THEN BOOLEAN ELSE {TRUE}) :
       /\ IF a.ok
          THEN \* return True: the loop variable is gone with the call
               /\ driver' = Show("list", 1)
               /\ pc' = "PageFetch"
               /\ page_num' = 1
               /\ prefecture_count' = 0
               /\ attempt' = 0
               /\ obs' = [obs EXCEPT
                    !.steps = a.steps,
                    !.fields =
                      {SetupFields[1]} \cup
                      (IF value_set(category_set, second_present)
                       THEN {SetupFields[2]} ELSE {})]
          ELSE /\ driver' = Show("base", 0)
               /\ pc' = "Setup"
               /\ attempt' = attempt +
                    (IF n = 2 THEN region_set.tries
                     ELSE IF n = 3 THEN category_set.tries
                     ELSE 1)
               /\ obs' = [obs EXCEPT !.attempts = @ + 1,
                                     !.steps = a.steps,
                                     !.waits = Append(@, wait_time(attempt))]
               /\ UNCHANGED <<page_num, prefecture_count>>
  /\ UNCHANGED <<site, disk, run, progress_data, statistics, cur,
                 existing_ids, pharmacy_list, idx, count, file_exists,
                 current_list_url, progress, faults>>

(* setup_search_conditions: one pass of the loop body, lines 239-296 *)
SetupAttempt ==
  /\ pc = "Setup"
  /\ attempt < MAX_RETRIES
  \* what happens after the step that raised is not drawn
  /\ \E open_ok \in BOOLEAN :
     \E region_set \in (IF open_ok THEN SetResults ELSE {SetAtOnce}) :
     \E category_set \in (IF open_ok /\ region_set.result
                          THEN SetResults ELSE {SetAtOnce}) :
     \E click_ok \in (IF open_ok /\ region_set.result /\ category_set.result
                      THEN BOOLEAN ELSE {TRUE}) :
     \E wait_ok \in (IF open_ok /\ region_set.result /\ category_set.result
                        /\ click_ok
                     THEN BOOLEAN ELSE {TRUE}) :
       LET a == setup_attempt(open_ok, region_set, category_set,
                              click_ok, wait_ok)
           n == Len(a.steps)
       IN
       \* wait_for_selector has seen the first field; nothing waits for
       \* the second
       \E second_present \in (IF a.ok THEN BOOLEAN ELSE {TRUE}) :
       /\ IF a.ok
          THEN \* return True: the loop variable is gone with the call
               /\ driver' = Show("list", 1)
               /\ pc' = "PageFetch"
               /\ page_num' = 1
               /\ prefecture_count' = 0
               /\ attempt' = 0
               /\ obs' = [obs EXCEPT
                    !.steps = a.steps,
                    !.fields =
                      {SetupFields[1]} \cup
                      (IF value_set(category_set, second_present)
                       THEN {SetupFields[2]} ELSE {})]
          ELSE /\ driver' = Show("base", 0)
               /\ pc' = "Setup"
               /\ attempt' = attempt + 1
               /\ obs' = [obs EXCEPT !.attempts = @ + 1,
                                     !.steps = a.steps,
                                     !.waits = Append(@, wait_time(attempt))]
               /\ UNCHANGED <<page_num, prefecture_count>>
  /\ UNCHANGED <<site, disk, run, progress_data, statistics, cur,
                 existing_ids, pharmacy_list, idx, count, file_exists,
                 current_list_url, progress, faults>>

\* defect: the loop gives up one attempt early
SetupExhaustedEarly ==
  /\ pc = "Setup"
  /\ attempt >= MAX_RETRIES - 1
  /\ pc' = "RegionEnd"
  /\ attempt' = 0
  /\ obs' = [obs EXCEPT !.outcome[region] = "Skipped",
                        !.steps = <<>>, !.waits = <<>>]
  /\ UNCHANGED <<site, disk, run, progress_data, statistics, driver, cur,
                 existing_ids, page_num, prefecture_count, pharmacy_list,
                 idx, count, file_exists, current_list_url, progress,
                 faults>>

\* defect: the region is marked done although its setup failed
SetupExhaustedMarksDone ==
  /\ pc = "Setup"
  /\ attempt >= MAX_RETRIES
  /\ pc' = "RegionEnd"
  /\ attempt' = 0
  /\ progress_data' = SetDone(progress_data, region)
  /\ progress_file' = [exists |-> TRUE, valid |-> TRUE,
                       data |-> progress_data']
  /\ obs' = [obs EXCEPT !.outcome[region] = "Skipped",
                        !.steps = <<>>, !.waits = <<>>]
  /\ UNCHANGED <<site, csv_files, stats_file, run, statistics, driver, cur,
                 existing_ids, page_num, prefecture_count, pharmacy_list,
                 idx, count, file_exists, current_list_url, progress,
                 faults>>

(* setup_search_conditions lines 298-299 and scrape_prefecture lines 75-77 *)
SetupExhausted ==
  /\ pc = "Setup"
  /\ attempt >= MAX_RETRIES
  /\ pc' = "RegionEnd"
  \* return False: the loop variable is gone with the call
  /\ attempt' = 0
  /\ obs' = [obs EXCEPT !.outcome[region] = "Skipped",
                        !.steps = <<>>, !.waits = <<>>]
  /\ UNCHANGED <<site, disk, run, progress_data, statistics, driver, cur,
                 existing_ids, page_num, prefecture_count, pharmacy_list,
                 idx, count, file_exists, current_list_url, progress,
                 faults>>

\* defect: a listing without items is raised as an error
PageFetchEmptyRaises ==
  /\ pc = "PageFetch"
  /\ LET rows == RowsShown(driver, site[region]) IN
     \E failed_at \in 0..Len(rows), url_ok \in BOOLEAN :
       /\ (failed_at # 0 /\ ~url_ok) => faults + 1 < MaxFaults
       /\ (failed_at # 0 \/ ~url_ok) => faults < MaxFaults
       /\ faults' = faults + (IF failed_at # 0 THEN 1 ELSE 0)
                           + (IF url_ok THEN 0 ELSE 1)
       /\ pharmacy_list' = extract_pharmacy_list(rows, failed_at)
       /\ obs' = [obs EXCEPT !.fetched = Append(@, driver.page),
                             !.handled = <<>>,
                             !.missed = @ + Len(rows) - Len(pharmacy_list'),
                             !.attempts = 0,
                             !.steps = <<>>,
                             !.fields = {},
                             !.waits = <<>>,
                             !.exit = IF pharmacy_list' = <<>>
                                      THEN "empty" ELSE @]
       /\ IF pharmacy_list' = <<>>
          THEN /\ url_ok
               /\ pc' = "Except"
               /\ UNCHANGED <<current_list_url, idx>>
          ELSE IF url_ok
          THEN /\ current_list_url' = driver.page
               /\ idx' = 1
               /\ pc' = "Item"
          ELSE /\ pc' = "Except"
               /\ UNCHANGED <<current_list_url, idx>>
  /\ UNCHANGED <<site, disk, run, progress_data, statistics, driver, cur,
                 existing_ids, attempt, page_num, prefecture_count, count,
                 file_exists, progress>>

(* scrape_prefecture: lines 84-94, one listing page is read *)
PageFetch ==
  /\ pc = "PageFetch"
  /\ LET rows == RowsShown(driver, site[region]) IN
     \E failed_at \in 0..Len(rows), url_ok \in BOOLEAN :
       /\ (failed_at # 0 /\ ~url_ok) => faults + 1 < MaxFaults
       /\ (failed_at # 0 \/ ~url_ok) => faults < MaxFaults
       /\ faults' = faults + (IF failed_at # 0 THEN 1 ELSE 0)
                           + (IF url_ok THEN 0 ELSE 1)
       /\ pharmacy_list' = extract_pharmacy_list(rows, failed_at)
       /\ obs' = [obs EXCEPT !.fetched = Append(@, driver.page),
                             !.handled = <<>>,
                             !.missed = @ + Len(rows) - Len(pharmacy_list'),
                             !.attempts = 0,
                             !.steps = <<>>,
                             !.fields = {},
                             !.waits = <<>>,
                             !.exit = IF pharmacy_list' = <<>>
                                      THEN "empty" ELSE @]
       /\ IF pharmacy_list' = <<>>
          THEN /\ url_ok
               /\ pc' = "Complete"
               /\ UNCHANGED <<current_list_url, idx>>
          ELSE IF url_ok
          THEN /\ current_list_url' = driver.page
               /\ idx' = 1
               /\ pc' = "Item"
          ELSE /\ pc' = "Except"
               /\ UNCHANGED <<current_list_url, idx>>
  /\ UNCHANGED <<site, disk, run, progress_data, statistics, driver, cur,
                 existing_ids, attempt, page_num, prefecture_count, count,
                 file_exists, progress>>

\* defect: the item loop passes over every second item
NextItemPassesOver ==
  IF idx + 1 < Len(pharmacy_list)
  THEN idx' = idx + 2 /\ pc' = "Item"
  ELSE idx' = idx /\ pc' = "BackToList"

\* the item loop moves to the next item, or leaves the loop after the last
NextItem ==
  IF idx < Len(pharmacy_list)
  THEN idx' = idx + 1 /\ pc' = "Item"
  ELSE idx' = idx /\ pc' = "BackToList"

\* defect: a skipped item is also counted as a pharmacy without data
ItemSkipCountsPharmacy ==
  /\ pc = "Item"
  /\ pharmacy_list[idx] \in existing_ids
  /\ statistics' = add_pharmacy(add_skip(statistics), region, FALSE)
  /\ obs' = [obs EXCEPT !.handled = Append(@, "skip")]
  /\ NextItem
  /\ UNCHANGED <<site, disk, run, progress_data, driver, cur, existing_ids,
                 attempt, page_num, prefecture_count, pharmacy_list, count,
                 file_exists, current_list_url, progress, faults>>

(* scrape_prefecture: lines 97-101, an id of the dedup set is skipped *)
ItemSkip ==
  /\ pc = "Item"
  /\ pharmacy_list[idx] \in existing_ids
  /\ statistics' = add_skip(statistics)
  /\ obs' = [obs EXCEPT !.handled = Append(@, "skip")]
  /\ NextItem
  /\ UNCHANGED <<site, disk, run, progress_data, driver, cur, existing_ids,
                 attempt, page_num, prefecture_count, pharmacy_list, count,
                 file_exists, current_list_url, progress, faults>>

\* defect: the exception of a failing detail fetch is not caught
ItemFetchRaises ==
  /\ pc = "Item"
  /\ pharmacy_list[idx] \notin existing_ids
  /\ \E driver_ok \in BOOLEAN :
       /\ ~driver_ok => faults < MaxFaults
       /\ faults' = faults + (IF driver_ok THEN 0 ELSE 1)
       /\ count' = IF driver_ok THEN DetailField(pharmacy_list[idx]) ELSE ""
       /\ driver' = Show("detail", driver.page)
       /\ IF ~driver_ok
          THEN /\ pc' = "Except"
               /\ statistics' = statistics
               /\ obs' = [obs EXCEPT !.handled = Append(@, "fail")]
          ELSE IF count' # ""
          THEN /\ pc' = "AppendOpen"
               /\ statistics' = statistics
               /\ obs' = [obs EXCEPT
                   !.before = [lines |-> csv_files[region].lines,
                               statistics |-> statistics]]
          ELSE /\ pc' = "Sleep"
               /\ statistics' = add_pharmacy(statistics, region, FALSE)
               /\ obs' = [obs EXCEPT
                   !.handled = Append(@, "nodata"),
                   !.before = [lines |-> csv_files[region].lines,
                               statistics |-> statistics]]
  /\ UNCHANGED <<site, disk, run, progress_data, cur, existing_ids, attempt,
                 page_num, prefecture_count, pharmacy_list, idx, file_exists,
                 current_list_url, progress>>

(* scrape_prefecture: lines 103-111 and 125-127, the detail view is read *)
ItemFetch ==
  /\ pc = "Item"
  /\ pharmacy_list[idx] \notin existing_ids
  /\ \E driver_ok \in BOOLEAN :
       /\ ~driver_ok => faults < MaxFaults
       /\ faults' = faults + (IF driver_ok THEN 0 ELSE 1)
       /\ count' = extract_prescription_count(pharmacy_list[idx], driver_ok)
       /\ driver' = Show("detail", driver.page)
       /\ IF count' # ""
          THEN /\ pc' = "AppendOpen"
               /\ statistics' = statistics
               /\ obs' = [obs EXCEPT
                   !.paused = FALSE,
                   !.before = [lines |-> csv_files[region].lines,
                               statistics |-> statistics]]
          ELSE /\ pc' = "Sleep"
               /\ statistics' = add_pharmacy(statistics, region, FALSE)
               /\ obs' = [obs EXCEPT
                   !.paused = FALSE,
                   !.handled = Append(@, IF driver_ok THEN "nodata" ELSE "fail"),
                   !.before = [lines |-> csv_files[region].lines,
                               statistics |-> statistics]]
  /\ UNCHANGED <<site, disk, run, progress_data, cur, existing_ids, attempt,
                 page_num, prefecture_count, pharmacy_list, idx, file_exists,
                 current_list_url, progress>>

(* append_to_csv: lines 34-36, the file is opened for appending *)
AppendOpen ==
  /\ pc = "AppendOpen"
  /\ file_exists' = csv_files[region].exists
  /\ csv_files' = [csv_files EXCEPT ![region] = OpenAppend(@)]
  /\ pc' = IF file_exists' THEN "AppendRow" ELSE "AppendHeader"
  /\ UNCHANGED <<site, progress_file, stats_file, run, progress_data,
                 statistics, driver, cur, existing_ids, attempt, page_num,
                 prefecture_count, pharmacy_list, idx, count,
                 current_list_url, progress, faults, obs>>

(* append_to_csv: lines 38-39, the header of a file that did not exist *)
AppendHeader ==
  /\ pc = "AppendHeader"
  /\ csv_files' = [csv_files EXCEPT ![region] = WriteLine(@, CSV_FIELDNAMES)]
  /\ pc' = "AppendRow"
  /\ UNCHANGED <<site, progress_file, stats_file, run, progress_data,
                 statistics, driver, cur, region_locals, progress,
                 faults, obs>>

(* append_to_csv: line 40, the record *)
AppendRow ==
  /\ pc = "AppendRow"
  /\ csv_files' = [csv_files EXCEPT
                     ![region] = WriteLine(@, Row(pharmacy_list[idx], count))]
  /\ pc' = "Saved"
  /\ UNCHANGED <<site, progress_file, stats_file, run, progress_data,
                 statistics, driver, cur, region_locals, progress,
                 faults, obs>>

\* defect: the id of the saved record is not added to the dedup set
SavedForgetsId ==
  /\ pc = "Saved"
  /\ existing_ids' = existing_ids
  /\ statistics' = add_pharmacy(statistics, region, TRUE)
  /\ prefecture_count' = prefecture_count + 1
  /\ obs' = [obs EXCEPT !.handled = Append(@, "data")]
  /\ pc' = "Sleep"
  /\ UNCHANGED <<site, disk, run, progress_data, driver, cur, attempt,
                 page_num, pharmacy_list, idx, count, file_exists,
                 current_list_url, progress, faults>>

\* defect: no pause after an item whose record was saved
SavedWithoutPause ==
  /\ pc = "Saved"
  /\ existing_ids' = existing_ids \cup {pharmacy_list[idx]}
  /\ statistics' = add_pharmacy(statistics, region, TRUE)
  /\ prefecture_count' = prefecture_count + 1
  /\ obs' = [obs EXCEPT !.handled = Append(@, "data")]
  /\ NextItem
  /\ UNCHANGED <<site, disk, run, progress_data, driver, cur, attempt,
                 page_num, pharmacy_list, count, file_exists,
                 current_list_url, progress, faults>>

(* scrape_prefecture: lines 122-124 *)
Saved ==
  /\ pc = "Saved"
  /\ existing_ids' = existing_ids \cup {pharmacy_list[idx]}
  /\ statistics' = add_pharmacy(statistics, region, TRUE)
  /\ prefecture_count' = prefecture_count + 1
  /\ obs' = [obs EXCEPT !.handled = Append(@, "data")]
  /\ pc' = "Sleep"
  /\ UNCHANGED <<site, disk, run, progress_data, driver, cur, attempt,
                 page_num, pharmacy_list, idx, count, file_exists,
                 current_list_url, progress, faults>>

(* scrape_prefecture: line 129, random_sleep *)
Sleep ==
  /\ pc = "Sleep"
  /\ NextItem
  /\ count' = ""
  /\ file_exists' = FALSE
  /\ obs' = [obs EXCEPT !.before = NoObs.before, !.paused = TRUE]
  /\ UNCHANGED <<site, disk, run, progress_data, statistics, driver, cur,
                 existing_ids, attempt, page_num, prefecture_count,
                 pharmacy_list, current_list_url, progress, faults>>

\* defect: the browser is left where the last item put it
BackToListStays ==
  /\ pc = "BackToList"
  /\ driver' = driver
  /\ pc' = "Advance"
  /\ faults' = faults
  /\ UNCHANGED <<site, disk, run, progress_data, statistics, cur,
                 region_locals, progress, obs>>

(* scrape_prefecture: line 132, back to the saved listing URL *)
BackToList ==
  /\ pc = "BackToList"
  /\ \E get_ok \in BOOLEAN :
       IF get_ok
       THEN /\ driver' = Show("list", current_list_url)
            /\ pc' = "Advance"
            /\ faults' = faults
       ELSE /\ faults < MaxFaults
            /\ driver' = Show("error", driver.page)
            /\ pc' = "Except"
            /\ faults' = faults + 1
  /\ UNCHANGED <<site, disk, run, progress_data, statistics, cur,
                 region_locals, progress, obs>>

\* defect: a failure of the wait or of the check is not caught
AdvanceFailureRaises ==
  /\ pc = "Advance"
  /\ \E wait_ok \in BOOLEAN, check_ok \in BOOLEAN, click_ok \in BOOLEAN :
       /\ ~wait_ok => (check_ok /\ click_ok)
       /\ ~check_ok => click_ok
       /\ ~(wait_ok /\ check_ok /\ click_ok) => faults < MaxFaults
       /\ IF wait_ok /\ has_next_page(ControlShown(driver, site[region]), check_ok)
          THEN \* go_to_next_page: its result is not looked at
               /\ driver' = IF click_ok THEN Show("list", driver.page + 1)
                            ELSE driver
               /\ faults' = IF click_ok THEN faults ELSE faults + 1
               /\ page_num' = page_num + 1
               /\ obs' = [obs EXCEPT !.clicks = @ + 1]
               /\ pc' = "PageFetch"
          ELSE /\ click_ok
               /\ pc' = IF wait_ok /\ check_ok THEN "Complete" ELSE "Except"
               /\ faults' = IF wait_ok /\ check_ok THEN faults
                            ELSE faults + 1
               /\ obs' = [obs EXCEPT !.exit = IF wait_ok /\ check_ok
                                               THEN "nonext" ELSE "failure"]
               /\ UNCHANGED <<driver, page_num>>
  /\ UNCHANGED <<site, disk, run, progress_data, statistics, cur,
                 existing_ids, attempt, prefecture_count, pharmacy_list, idx,
                 count, file_exists, current_list_url, progress>>

(* scrape_prefecture: lines 133-148, the next control *)
Advance ==
  /\ pc = "Advance"
  /\ \E wait_ok \in BOOLEAN, check_ok \in BOOLEAN, click_ok \in BOOLEAN :
       /\ ~wait_ok => (check_ok /\ click_ok)
       /\ ~check_ok => click_ok
       /\ ~(wait_ok /\ check_ok /\ click_ok) => faults < MaxFaults
       /\ IF wait_ok /\ has_next_page(ControlShown(driver, site[region]), check_ok)
          THEN \* go_to_next_page: its result is not looked at
               /\ driver' = IF click_ok THEN Show("list", driver.page + 1)
                            ELSE driver
               /\ faults' = IF click_ok THEN faults ELSE faults + 1
               /\ page_num' = page_num + 1
               /\ obs' = [obs EXCEPT !.clicks = @ + 1]
               /\ pc' = "PageFetch"
          ELSE /\ click_ok
               /\ pc' = "Complete"
               /\ faults' = IF wait_ok /\ check_ok THEN faults
                            ELSE faults + 1
               /\ obs' = [obs EXCEPT !.exit = IF wait_ok /\ check_ok
                                               THEN "nonext" ELSE "failure"]
               /\ UNCHANGED <<driver, page_num>>
  /\ UNCHANGED <<site, disk, run, progress_data, statistics, cur,
                 existing_ids, attempt, prefecture_count, pharmacy_list, idx,
                 count, file_exists, current_list_url, progress>>

\* defect: the mark is written while the page loop is still going on
MarkDoneSpeculative ==
  /\ pc \in {"Complete", "BackToList"}
  /\ progress_data' = SetDone(progress_data, region)
  /\ progress_file' = [exists |-> TRUE, valid |-> FALSE, data |-> EmptyMap]
  /\ obs' = [obs EXCEPT !.marks[region] = @ + 1]
  /\ pc' = "SaveProgress"
  /\ UNCHANGED <<site, csv_files, stats_file, run, statistics, driver, cur,
                 region_locals, progress, faults>>

(* scrape_prefecture: line 151; mark_done and the open(.., 'w') of save *)
MarkDone ==
  /\ pc = "Complete"
  /\ progress_data' = SetDone(progress_data, region)
  /\ progress_file' = [exists |-> TRUE, valid |-> FALSE, data |-> EmptyMap]
  /\ obs' = [obs EXCEPT !.marks[region] = @ + 1]
  /\ pc' = "SaveProgress"
  /\ UNCHANGED <<site, csv_files, stats_file, run, statistics, driver, cur,
                 region_locals, progress, faults>>

\* defect: only the region just marked is written, not the whole map
SaveProgressPatch ==
  /\ pc = "SaveProgress"
  /\ progress_file' = [exists |-> TRUE, valid |-> TRUE,
                       data |-> [x \in {region} |-> "DONE"]]
  /\ obs' = [obs EXCEPT !.outcome[region] = "Complete"]
  /\ pc' = "RegionEnd"
  /\ UNCHANGED <<site, csv_files, stats_file, run, progress_data, statistics,
                 driver, cur, region_locals, progress, faults>>

(* ProgressManager.save: json.dump of the whole map, then the return *)
SaveProgress ==
  /\ pc = "SaveProgress"
  /\ progress_file' = [exists |-> TRUE, valid |-> TRUE, data |-> progress_data]
  /\ obs' = [obs EXCEPT !.outcome[region] = "Complete"]
  /\ pc' = "RegionEnd"
  /\ UNCHANGED <<site, csv_files, stats_file, run, progress_data, statistics,
                 driver, cur, region_locals, progress, faults>>

\* defect: a region whose setup failed ends the loop over the regions
RegionEndStopsAfterSkip ==
  /\ pc = "RegionEnd"
  /\ progress' = calculate_progress(progress_data, Len(PREFECTURES))
  /\ IF obs.outcome[region] = "Skipped"
     THEN cur' = cur /\ pc' = "Except" /\ obs' = obs
     ELSE IF cur < Len(PREFECTURES)
     THEN cur' = cur + 1 /\ pc' = "RegionInit" /\ obs' = obs
     ELSE /\ cur' = cur
          /\ pc' = "Finally"
          /\ obs' = [obs EXCEPT !.ending = "normal"]
  /\ UNCHANGED <<site, disk, run, progress_data, statistics, driver,
                 region_locals, faults>>

\* defect: a region whose setup failed is started again
RegionEndRetriesSkipped ==
  /\ pc = "RegionEnd"
  /\ progress' = calculate_progress(progress_data, Len(PREFECTURES))
  /\ IF obs.outcome[region] = "Skipped" /\ Len(obs.started) <= Len(PREFECTURES)
     THEN cur' = cur /\ pc' = "RegionInit" /\ obs' = obs
     ELSE IF cur < Len(PREFECTURES)
     THEN cur' = cur + 1 /\ pc' = "RegionInit" /\ obs' = obs
     ELSE /\ cur' = cur
          /\ pc' = "Finally"
          /\ obs' = [obs EXCEPT !.ending = "normal"]
  /\ UNCHANGED <<site, disk, run, progress_data, statistics, driver,
                 region_locals, faults>>

(* main: lines 183-190, after a region *)
RegionEnd ==
  /\ pc = "RegionEnd"
  /\ progress' = calculate_progress(progress_data, Len(PREFECTURES))
  /\ IF cur < Len(PREFECTURES)
     THEN cur' = cur + 1 /\ pc' = "RegionInit" /\ obs' = obs
     ELSE /\ cur' = cur
          /\ pc' = "Finally"
          /\ obs' = [obs EXCEPT !.ending = "normal"]
  /\ UNCHANGED <<site, disk, run, progress_data, statistics, driver,
                 region_locals, faults>>

\* defect: the handler of the exception ends without releasing the browser
ExceptSkipsQuit ==
  /\ pc = "Except"
  /\ statistics' = add_error(statistics)
  /\ pc' = "SaveStats"
  /\ obs' = [obs EXCEPT !.ending = "exception"]
  /\ UNCHANGED <<site, disk, run, progress_data, driver, cur, region_locals,
                 progress, faults>>

(* main: lines 194-196, an exception left scrape_prefecture *)
Except ==
  /\ pc = "Except"
  /\ statistics' = add_error(statistics)
  /\ pc' = "Finally"
  /\ obs' = [obs EXCEPT !.ending = "exception"]
  /\ UNCHANGED <<site, disk, run, progress_data, driver, cur, region_locals,
                 progress, faults>>

TryBody == {"RegionInit", "Setup", "PageFetch", "Item", "AppendOpen",
            "AppendHeader", "AppendRow", "Saved", "Sleep", "BackToList",
            "Advance", "Complete", "SaveProgress", "RegionEnd"}

(* main: lines 192-193, KeyboardInterrupt anywhere in the try body *)
Interrupt ==
  /\ pc \in TryBody
  /\ pc' = "Finally"
  /\ obs' = [obs EXCEPT !.ending = "interrupt"]
  /\ UNCHANGED <<site, disk, run, progress_data, statistics, driver, cur,
                 region_locals, progress, faults>>

(* main: line 198 *)
Finally ==
  /\ pc = "Finally"
  /\ driver' = [driver EXCEPT !.alive = FALSE]
  /\ pc' = "SaveStats"
  /\ UNCHANGED <<site, disk, run, progress_data, statistics, cur,
                 region_locals, progress, faults, obs>>

(* main: lines 199-201, Statistics.save, and the process ends *)
SaveStats ==
  /\ pc = "SaveStats"
  /\ stats_file' = [exists |-> TRUE, data |-> statistics]
  /\ pc' = "Idle"
  /\ progress_data' = EmptyMap
  /\ statistics' = NewStatistics
  /\ driver' = NoDriver
  /\ cur' = 1
  /\ ResetLocals
  /\ progress' = <<0, 0, 0>>
  /\ faults' = 0
  /\ obs' = NoObs
  /\ UNCHANGED <<site, csv_files, progress_file, run>>

Next ==
  \/ StartRun
  \/ RegionInit
  \/ SetupAttempt
  \/ SetupExhausted
  \/ PageFetch
  \/ ItemSkip
  \/ ItemFetch
  \/ AppendOpen
  \/ AppendHeader
  \/ AppendRow
  \/ Saved
  \/ Sleep
  \/ BackToList
  \/ Advance
  \/ MarkDone
  \/ SaveProgress
  \/ RegionEnd
  \/ Except
  \/ Interrupt
  \/ Finally
  \/ SaveStats

Spec == Init /\ [][Next]_vars

----------------------------------------------------------------------------
(* Vocabulary of the properties, defined on the files and the state alone *)

DataIndexes(f) == {i \in 1..Len(f.lines) : f.lines[i] # CSV_FIELDNAMES}

LedgerIds(f) == {f.lines[i].id : i \in DataIndexes(f)}

NoDuplicateRecords(f) ==
  \A i, j \in DataIndexes(f) : i # j => f.lines[i].id # f.lines[j].id

LedgerWithoutData(f) ==
  \/ ~f.exists
  \/ f.lines = <<>>
  \/ f.lines = <<CSV_FIELDNAMES>>

MarkedDone(data, r) == r \in DOMAIN data /\ data[r] = "DONE"

EndedSkipped == pc = "RegionEnd" /\ obs.outcome[region] = "Skipped"

----------------------------------------------------------------------------
(* C1: idempotent resume.  No region's Ledger ever holds two Records with  *)
(* the same id, and the dedup set a run builds when it starts a region     *)
(* contains every id the Ledger holds, whether the earlier run finished or *)
(* was interrupted at any point.                                           *)
C1_IdempotentResume ==
  /\ \A r \in Codes : NoDuplicateRecords(csv_files[r])
  /\ (pc = "Setup" /\ attempt = 0) =>
        LedgerIds(csv_files[region]) \subseteq existing_ids

(* C2: stale-completion override.  A region marked DONE whose Ledger is    *)
(* absent, empty or header-only when the region starts enters the session  *)
(* setup; it is not skipped (only an interrupt can stop it there).         *)
C2_StaleCompletionReprocessed ==
  [][ ( /\ pc = "RegionInit"
        /\ MarkedDone(progress_data, region)
        /\ LedgerWithoutData(csv_files[region]) )
      => ( \/ pc' = "Setup" /\ obs'.outcome[region] = "none"
           \/ pc' = "Finally" /\ obs'.ending = "interrupt" ) ]_vars

C2_Witness ==
  /\ pc = "Setup"
  /\ MarkedDone(obs.start.data, region)
  /\ obs.start.file = [exists |-> TRUE, lines |-> <<CSV_FIELDNAMES>>]

(* C3: retry bound.  A region that ends Skipped has had exactly            *)
(* MAX_RETRIES setup attempts, all failed; at no time has a setup made     *)
(* more; and mark_done has not been called for the region.                 *)
C3_RetryBound ==
  /\ obs.attempts <= MAX_RETRIES
  /\ EndedSkipped => (obs.attempts = MAX_RETRIES /\ obs.marks[region] = 0)

C3_Witness == EndedSkipped /\ obs.attempts = 3

(* C4, as claimed: after the setup attempts are exhausted the region is    *)
(* not DONE in the ProgressStore, whatever the store held before.          *)
C4_SkippedIsNotDone ==
  EndedSkipped => ~MarkedDone(progress_data, region)

(* C4, amended: after the setup attempts are exhausted the ProgressStore   *)
(* and the Ledger are as they were when the region started, so a region    *)
(* that was not DONE is still not DONE, a stale DONE mark stays, and in    *)
(* both cases the region is not trusted as DONE: a later run retries it.   *)
C4_SkippedLeavesStoreAsItWas ==
  EndedSkipped =>
    /\ progress_data = obs.start.data
    /\ csv_files[region] = obs.start.file
    /\ ~MarkedDone(obs.start.data, region) => ~MarkedDone(progress_data, region)
    /\ ~( /\ MarkedDone(progress_data, region)
          /\ csv_files[region].exists
          /\ Len(csv_files[region].lines) > 1 )

C4_Witness == EndedSkipped /\ MarkedDone(progress_data, region)

(* C5: when the session setup fails on all attempts the Statistics error   *)
(* count is one more than it was when the region started.                  *)
C5_SkippedRegionCounted ==
  EndedSkipped => statistics.errors = obs.start.statistics.errors + 1

(* C6: a region that ended Skipped does not end the run: the next step of  *)
(* the Orchestrator starts the next region of the declared order, or ends  *)
(* the run normally when the region was the last (only an interrupt        *)
(* arriving at that moment ends it otherwise), and no error is raised.     *)
C6_SkippedRegionDoesNotStopRun ==
  [][ EndedSkipped =>
        \/ /\ cur < Len(PREFECTURES)
           /\ cur' = cur + 1
           /\ pc' = "RegionInit"
           /\ obs'.ending = "none"
        \/ /\ cur = Len(PREFECTURES)
           /\ pc' = "Finally"
           /\ obs'.ending = "normal"
        \/ /\ pc' = "Finally"
           /\ obs'.ending = "interrupt" ]_vars

C6_Witness ==
  /\ cur = 2
  /\ pc = "RegionInit"
  /\ obs.outcome[PREFECTURES[1]] = "Skipped"

----------------------------------------------------------------------------
(* The item loop *)

\* the step in which the detail fetch of the current item fails
DetailFetchFails ==
  /\ pc = "Item"
  /\ obs'.handled = Append(obs.handled, "fail")

Interrupted == pc' = "Finally" /\ obs'.ending = "interrupt"

DataRows(lines) ==
  LET keep[i \in 0..Len(lines)] ==
        IF i = 0 THEN <<>>
        ELSE IF lines[i] = CSV_FIELDNAMES THEN keep[i - 1]
        ELSE Append(keep[i - 1], lines[i])
  IN  keep[Len(lines)]

(* C7: partial-failure isolation.  A failing detail fetch leaves the       *)
(* crawler in the item loop at the same item, about to pause; after the    *)
(* pause the loop goes to the next item of the page, or, after the last    *)
(* item, to the return to the listing; and whenever the page-advance part  *)
(* is reached every item of the page has been handled, failed or not.      *)
C7_PartialFailureIsolation ==
  /\ [][ DetailFetchFails =>
           /\ pc' = "Sleep"
           /\ idx' = idx
           /\ pharmacy_list' = pharmacy_list ]_vars
  /\ [][ pc = "Sleep" =>
           \/ Interrupted
           \/ idx < Len(pharmacy_list) /\ pc' = "Item" /\ idx' = idx + 1
           \/ idx = Len(pharmacy_list) /\ pc' = "BackToList" ]_vars
  /\ [][ (pc = "BackToList" /\ pc' = "Advance") =>
           /\ Len(obs.handled) = Len(pharmacy_list)
           /\ obs'.handled = obs.handled ]_vars

C7_Witness ==
  /\ pc = "Advance"
  /\ Len(pharmacy_list) = 3
  /\ Len(obs.handled) = 3
  /\ obs.handled[1] = "fail"

(* C8: a failing detail fetch increments the Statistics error counter by   *)
(* one.                                                                    *)
C8_DetailFailureCounted ==
  [][ DetailFetchFails => statistics'.errors = statistics.errors + 1 ]_vars

(* C9: pagination termination.  With the next control of the listing page  *)
(* disabled or absent, the page-advance step goes to Complete without a    *)
(* click and without another PageFetch, and Complete only leads on to the  *)
(* completion mark.                                                        *)
C9_PaginationTermination ==
  /\ [][ ( /\ pc = "Advance"
           /\ driver.view = "list"
           /\ driver.page \in 1..Len(site[region])
           /\ site[region][driver.page].next \in {"disabled", "absent"} )
         => \/ Interrupted
            \/ /\ pc' = "Complete"
               /\ obs'.clicks = obs.clicks
               /\ obs'.fetched = obs.fetched
               /\ driver' = driver ]_vars
  /\ [][ pc = "Complete" =>
           \/ Interrupted
           \/ pc' = "SaveProgress" /\ obs'.fetched = obs.fetched ]_vars

C9_Witness ==
  /\ pc = "Complete"
  /\ driver.view = "list"
  /\ driver.page = 2
  /\ site[region][driver.page].next = "disabled"
  /\ obs.fetched = <<1, 2>>
  /\ obs.clicks = 1

----------------------------------------------------------------------------
(* C11: an item whose id is in the dedup set.  The step that handles it    *)
(* (any step but an interrupt) adds one to the skip counter and changes    *)
(* nothing else: the browser stays where it is (no detail fetch), the      *)
(* Ledger and the dedup set are as before, and no pharmacy is counted,     *)
(* with or without data; the loop goes on to the next item.                *)
C11_SkipTouchesOnlySkipCounter ==
  [][ (pc = "Item" /\ pharmacy_list[idx] \in existing_ids) =>
        \/ Interrupted
        \/ /\ statistics' = [statistics EXCEPT !.skipped = @ + 1]
           /\ obs'.handled = Append(obs.handled, "skip")
           /\ driver' = driver
           /\ faults' = faults
           /\ csv_files' = csv_files
           /\ existing_ids' = existing_ids
           /\ count' = count
           /\ pharmacy_list' = pharmacy_list
           /\ \/ idx < Len(pharmacy_list) /\ pc' = "Item" /\ idx' = idx + 1
              \/ idx = Len(pharmacy_list) /\ pc' = "BackToList" ]_vars

C11_Witness ==
  /\ pc = "Item"
  /\ idx = 2
  /\ obs.handled = <<"skip">>
  /\ pharmacy_list[1] \in existing_ids
  /\ statistics.skipped = 1
  /\ statistics.total_pharmacies = 0
  /\ driver.view = "list"

----------------------------------------------------------------------------
(* The completion mark *)

\* the positions of scrape_prefecture between the session setup and the end
\* of the page loop
InLoops == {"Setup", "PageFetch", "Item", "AppendOpen", "AppendHeader",
            "AppendRow", "Saved", "Sleep", "BackToList", "Advance"}

(* C12: the completion mark.  The map of the ProgressStore and its file    *)
(* are written only by the steps taken from Complete (mark_done and its    *)
(* save), and Complete is entered only by the page loop ending (an empty   *)
(* listing, or the page advance finding no next page); a region is marked  *)
(* at most once in a run; while the region is in its setup or in its page  *)
(* and item loops it has not been marked; and a region that ended Skipped  *)
(* has not been marked.                                                    *)
C12_MarkOnlyAfterLoop ==
  /\ [][ (progress_data' # progress_data /\ pc # "Idle" /\ pc' # "Idle") =>
           /\ pc = "Complete"
           /\ obs.exit # "none"
           /\ progress_data' = [x \in DOMAIN progress_data \cup {region} |->
                                  IF x = region THEN "DONE"
                                  ELSE progress_data[x]] ]_vars
  /\ [][ progress_file' # progress_file =>
           pc \in {"Complete", "SaveProgress"} ]_vars
  /\ [][ (pc' = "Complete" /\ pc # "Complete") =>
           /\ pc \in {"PageFetch", "Advance"}
           /\ obs'.exit # "none" ]_vars
  /\ [](\A r \in Codes : obs.marks[r] <= 1)
  /\ [](pc \in InLoops => obs.marks[region] = 0)
  /\ [](\A r \in Codes : obs.outcome[r] = "Skipped" => obs.marks[r] = 0)

C12_Witness ==
  /\ pc = "RegionEnd"
  /\ cur = 2
  /\ obs.marks = [x \in Codes |-> 1]
  /\ obs.outcome = [x \in Codes |-> "Complete"]
  /\ obs.exit = "nonext"

----------------------------------------------------------------------------
(* The end of a run *)

Running == TryBody \cup {"Except"}

C14_InterruptLosesNothing ==
  (pc = "Finally" /\ obs.ending = "interrupt") =>
    /\ \A r \in Codes :
         MarkedDone(obs.start.data, r) =>
           is_done(LoadProgress(progress_file), r)
    /\ Len(obs.start.file.lines) <= Len(csv_files[region].lines)
    /\ \A i \in 1..Len(obs.start.file.lines) :
         csv_files[region].lines[i] = obs.start.file.lines[i]
    /\ \A r \in Codes :
         LedgerIds(csv_files[r]) \subseteq get_existing_ids(csv_files[r])

(* C15: the header of the Ledger.  When an append has returned, the file   *)
(* begins with the header row and holds no other header row, whatever the  *)
(* file was before (absent, empty or populated).                           *)
C15_HeaderExactlyOnce ==
  pc = "Saved" =>
    LET lines == csv_files[region].lines IN
    /\ lines[1] = CSV_FIELDNAMES
    /\ Cardinality({i \in 1..Len(lines) : lines[i] = CSV_FIELDNAMES}) = 1

----------------------------------------------------------------------------
RecordsOf(f, id) ==
  Cardinality({i \in DataIndexes(f) : f.lines[i].id = id})

(* C17: the dedup set.  The set loaded when a region starts is empty for   *)
(* a Ledger that is absent, empty or header-only, and each id in it is the *)
(* id of exactly one Record of the file; the set of the region before is   *)
(* not carried over; afterwards the set changes only by the id of the      *)
(* current item being added, after the Record of that item has been        *)
(* written as the last line of the file.                                   *)
C17_DedupSetFromLedger ==
  /\ [][ (pc = "RegionInit" /\ pc' = "Setup") =>
           /\ LedgerWithoutData(csv_files[region]) => existing_ids' = {}
           /\ \A id \in existing_ids' : RecordsOf(csv_files[region], id) = 1
           /\ csv_files' = csv_files ]_vars
  /\ [][ (existing_ids' # existing_ids
            /\ pc \notin {"Idle", "RegionInit", "SaveStats"}) =>
           LET lines == csv_files[region].lines IN
           /\ pc = "Saved"
           /\ existing_ids' = existing_ids \cup {pharmacy_list[idx]}
           /\ Len(lines) > 0
           /\ lines[Len(lines)] =
                [id |-> pharmacy_list[idx], prescription_count |-> count]
           /\ csv_files' = csv_files ]_vars

C17_Witness ==
  /\ pc = "Setup"
  /\ attempt = 0
  /\ existing_ids = {"A1", "A2"}
  /\ csv_files[region].lines[1] = CSV_FIELDNAMES
  /\ Len(csv_files[region].lines) = 3

(* C18: a region trusted as done.  When a region starts that is DONE in    *)
(* the ProgressStore and whose Ledger holds at least one Record, the next  *)
(* step (unless an interrupt) ends the region as SkippedAlreadyDone        *)
(* with the browser, the Ledger, the ProgressStore and the Statistics      *)
(* untouched and no setup attempt made.                                    *)
C18_TrustedDoneSkipped ==
  [][ ( /\ pc = "RegionInit"
        /\ MarkedDone(progress_data, region)
        /\ DataIndexes(csv_files[region]) # {} )
      => \/ Interrupted
         \/ /\ pc' = "RegionEnd"
            /\ obs'.outcome[region] = "SkippedAlreadyDone"
            /\ obs'.attempts = 0
            /\ driver' = driver
            /\ csv_files' = csv_files
            /\ progress_file' = progress_file
            /\ progress_data' = progress_data
            /\ statistics' = statistics ]_vars

----------------------------------------------------------------------------
(* The ways out of the page loop *)

\* the positions between the end of the page loop of a region and the
\* start of the next region or the end of the run
AfterLoop == {"Complete", "SaveProgress", "RegionEnd", "RegionInit",
              "Finally", "SaveStats"}

\* a ProgressStore loaded from the file as it is reports the region as done
PersistedDone(r) ==
  /\ progress_file.exists
  /\ progress_file.valid
  /\ MarkedDone(progress_file.data, r)

(* C19: an empty listing.  A page fetch that extracts no item goes (unless *)
(* an interrupt) to Complete, handles no item and touches neither the      *)
(* Statistics nor the Ledger; from then on no item is processed and no     *)
(* exception ends the run; and the region ends marked DONE, in memory and  *)
(* in the file, with the error count it started with.                      *)
C19_EmptyListingCompletes ==
  /\ [][ (pc = "PageFetch" /\ pharmacy_list' = <<>>) =>
           \/ Interrupted
           \/ /\ pc' = "Complete"
              /\ obs'.exit = "empty"
              /\ obs'.handled = <<>>
              /\ statistics' = statistics
              /\ csv_files' = csv_files ]_vars
  /\ [](obs.exit = "empty" =>
          /\ pc \in AfterLoop
          /\ obs.ending # "exception"
          /\ obs.handled = <<>>
          /\ statistics.errors = obs.start.statistics.errors)
  /\ []((obs.exit = "empty" /\ pc = "RegionEnd") =>
          /\ obs.outcome[region] = "Complete"
          /\ MarkedDone(progress_data, region)
          /\ PersistedDone(region))

C19_Witness ==
  /\ pc = "RegionEnd"
  /\ obs.exit = "empty"
  /\ obs.fetched = <<1>>
  /\ site[region][1].items = <<>>
  /\ obs.outcome[region] = "Complete"
  /\ PersistedDone(region)

(* C20: a failure in the page advance.  From the page advance the crawler  *)
(* goes to the next page fetch or to Complete, never to the handler of     *)
(* the Orchestrator; when the wait for the listing or the check of the     *)
(* next control fails it goes to Complete without a click and with the     *)
(* Statistics as they were; no exception ends the run after that; and the  *)
(* region ends marked DONE, in memory and in the file, with the error      *)
(* count it started with.                                                  *)
C20_AdvanceFailureCompletes ==
  /\ [][ pc = "Advance" =>
           \/ Interrupted
           \/ pc' \in {"PageFetch", "Complete"} ]_vars
  /\ [][ (pc = "Advance" /\ obs'.exit = "failure") =>
           /\ pc' = "Complete"
           /\ obs'.clicks = obs.clicks
           /\ statistics' = statistics
           /\ obs'.ending = "none" ]_vars
  /\ [](obs.exit = "failure" =>
          /\ pc \in AfterLoop
          /\ obs.ending # "exception"
          /\ statistics.errors = obs.start.statistics.errors)
  /\ []((obs.exit = "failure" /\ pc = "RegionEnd") =>
          /\ obs.outcome[region] = "Complete"
          /\ MarkedDone(progress_data, region)
          /\ PersistedDone(region))

C20_Witness ==
  /\ pc = "RegionEnd"
  /\ obs.exit = "failure"
  /\ site[region][driver.page].next = "enabled"
  /\ obs.outcome[region] = "Complete"
  /\ PersistedDone(region)
  /\ statistics.errors = 0

----------------------------------------------------------------------------
(* The bounded retries *)

NonDecreasing(w) == \A i, j \in 1..Len(w) : i <= j => w[i] <= w[j]

(* C21: the bounded retry.  From the session setup the crawler goes to     *)
(* the first page fetch, stays in the setup or ends the region: no         *)
(* exception of a step reaches the Orchestrator.  The attempt that         *)
(* succeeds is the last: the search results are shown, the crawler leaves  *)
(* the setup in that step, and attempts are only ever counted by a failed  *)
(* attempt inside the setup.  With all attempts failed the only step is    *)
(* the return of False, the region ending Skipped.  And safe_set_value     *)
(* returns True at the first evaluation that does not raise, having made   *)
(* no evaluation after it, and False after MAX_RETRIES raising ones.       *)
C21_RetryReturns ==
  /\ [][ pc = "Setup" =>
           \/ Interrupted
           \/ pc' \in {"Setup", "PageFetch", "RegionEnd"} ]_vars
  /\ [][ (pc = "Setup" /\ driver'.view = "list") =>
           \/ Interrupted
           \/ /\ pc' = "PageFetch"
              /\ obs'.attempts = obs.attempts
              /\ obs'.steps = SetupSteps ]_vars
  /\ [][ obs'.attempts > obs.attempts =>
           /\ pc = "Setup"
           /\ pc' = "Setup"
           /\ driver'.view # "list" ]_vars
  /\ [][ (pc = "Setup" /\ obs.attempts = MAX_RETRIES) =>
           \/ Interrupted
           \/ pc' = "RegionEnd" /\ obs'.outcome[region] = "Skipped" ]_vars
  /\ [](\A evals \in AllEvalOutcomes :
          LET r == safe_set_value(evals) IN
          /\ r.result = (\E i \in 1..MAX_RETRIES : evals[i])
          /\ r.tries \in 1..MAX_RETRIES
          /\ \A i \in 1..(r.tries - 1) : ~evals[i]
          /\ r.result => evals[r.tries]
          /\ ~r.result => r.tries = MAX_RETRIES)

C21_Witness ==
  /\ pc = "PageFetch"
  /\ obs.attempts = 2
  /\ obs.steps = SetupSteps
  /\ driver.view = "list"
  /\ obs.fetched = <<>>

C23_WholeSequenceAttempt ==
  /\ [][ (pc = "Setup" /\ pc' = "Setup") =>
           /\ attempt' = attempt + 1
           /\ obs'.attempts = obs.attempts + 1
           /\ Len(obs'.steps) \in 1..Len(SetupSteps)
           /\ obs'.steps = SubSeq(SetupSteps, 1, Len(obs'.steps))
           /\ obs'.steps[1] = "open" ]_vars
  /\ [][ (pc = "Setup" /\ pc' = "PageFetch") =>
           /\ obs'.steps = SetupSteps
           /\ obs'.attempts = obs.attempts ]_vars
  /\ [](attempt <= MAX_RETRIES)

C23_Witness ==
  /\ pc = "Setup"
  /\ attempt = 2
  /\ obs.steps = <<"open", "set_region", "set_category">>

----------------------------------------------------------------------------
(* Orders *)

\* the positions of the item loop
InItem == {"Item", "AppendOpen", "AppendHeader", "AppendRow", "Saved"}

(* C24: one pass over the regions.  The regions started in a run are, at   *)
(* every moment, the first regions of the list in the order of the list,   *)
(* each once; a region is started only when the one before it has ended    *)
(* (completed, skipped as done, or skipped after the failed setup); and a  *)
(* run that ends normally has started every region once.  (A run ended by  *)
(* an interrupt or an exception has started the regions up to the one it   *)
(* ended in.)                                                              *)
C24_RegionsOnceInOrder ==
  /\ [](/\ Len(obs.started) <= Len(PREFECTURES)
        /\ obs.started = SubSeq(PREFECTURES, 1, Len(obs.started)))
  /\ [][ (obs'.started # obs.started /\ pc' # "Idle") =>
           /\ pc = "RegionInit"
           /\ obs'.started = Append(obs.started, PREFECTURES[cur])
           /\ cur = Len(obs.started) + 1
           /\ \A i \in 1..(cur - 1) : obs.outcome[PREFECTURES[i]] # "none"
           /\ obs.outcome[PREFECTURES[cur]] = "none" ]_vars
  /\ [](obs.ending = "normal" =>
          /\ obs.started = PREFECTURES
          /\ \A r \in Codes : obs.outcome[r] # "none")

C24_Witness ==
  /\ obs.ending = "normal"
  /\ obs.started = PREFECTURES
  /\ obs.outcome["01"] = "Skipped"
  /\ obs.outcome["02"] = "Complete"

(* C25: the order inside a region.  The items of a page are handled one    *)
(* by one in the order of the listing: at item i exactly the i - 1 items   *)
(* before it have been handled, and the loop only ever goes from item i    *)
(* to item i + 1; a page is fetched, after the first, only when every item *)
(* of the page before has been handled; the page number goes up by one     *)
(* with every click and the pages fetched never go back.                   *)
C25_ListingOrder ==
  /\ [](pc \in InItem => (idx \in 1..Len(pharmacy_list)
                           /\ Len(obs.handled) = idx - 1))
  /\ [](pc = "Sleep" => Len(obs.handled) = idx)
  /\ [][ (idx' # idx /\ pc \in InItem \cup {"Sleep"}) =>
           /\ idx' = idx + 1
           /\ Len(obs'.handled) = idx
           /\ pc' = "Item" ]_vars
  /\ [][ (pc = "PageFetch" /\ obs'.fetched # obs.fetched) =>
           /\ obs.fetched # <<>> => Len(obs.handled) = Len(pharmacy_list)
           /\ \A i \in 1..Len(obs.fetched) :
                obs.fetched[i] <= obs'.fetched[Len(obs'.fetched)]
           /\ Len(obs'.fetched) = page_num ]_vars
  /\ [][ (page_num' # page_num /\ pc = "Advance") =>
           /\ page_num' = page_num + 1
           /\ Len(obs.handled) = Len(pharmacy_list) ]_vars

C25_Witness ==
  /\ pc = "Item"
  /\ obs.fetched = <<1, 2>>
  /\ page_num = 2
  /\ pharmacy_list = <<"A1", "A2">>
  /\ idx = 2
  /\ Len(obs.handled) = 1

\* the Records appended to the Ledger of the region since the region started
AppendedNow ==
  LET was == Len(obs.start.file.lines)
      now == csv_files[region].lines
  IN  DataRows(SubSeq(now, was + 1, Len(now)))

(* C26: the dedup set is updated at once.  The step after the append adds  *)
(* the id of the Record to the dedup set; from then on every id appended   *)
(* since the region started is in the set, so that an item with such an    *)
(* id is skipped; and no id is appended twice in one run of a region.      *)
C26_NoSecondAppendInRun ==
  /\ [][ pc = "Saved" =>
           \/ Interrupted
           \/ /\ pharmacy_list[idx] \in existing_ids'
              /\ csv_files' = csv_files ]_vars
  /\ [](pc \in {"PageFetch", "Item", "Sleep", "BackToList", "Advance"} =>
          \A i \in 1..Len(AppendedNow) : AppendedNow[i].id \in existing_ids)
  /\ [](pc \in InLoops =>
          \A i, j \in 1..Len(AppendedNow) :
            i # j => AppendedNow[i].id # AppendedNow[j].id)
  /\ [][ ( /\ pc = "Item"
           /\ \E i \in 1..Len(AppendedNow) :
                AppendedNow[i].id = pharmacy_list[idx] ) =>
           \/ Interrupted
           \/ /\ obs'.handled = Append(obs.handled, "skip")
              /\ csv_files' = csv_files
              /\ driver' = driver ]_vars

C26_Witness ==
  /\ pc = "BackToList"
  /\ obs.fetched = <<1, 2>>
  /\ pharmacy_list = <<"A2">>
  /\ obs.handled = <<"skip">>
  /\ "A2" \notin obs.start.ids
  /\ \E i \in 1..Len(AppendedNow) : AppendedNow[i].id = "A2"

(* C27: the pause after a detail fetch.  A detail fetch is made only with  *)
(* the pause made since the fetch before it; after a fetch the crawler is  *)
(* in the saving of the record or at the pause, or the run is ending; the  *)
(* browser is asked nothing until the pause is made (only the end of the   *)
(* run closes it); and only the pause ends that state.                     *)
C27_PauseAfterEveryFetch ==
  /\ [][ (pc = "Item" /\ pc' \in {"AppendOpen", "Sleep"}) =>
           /\ obs.paused
           /\ ~obs'.paused
           /\ driver'.view = "detail" ]_vars
  /\ [](~obs.paused =>
          pc \in {"AppendOpen", "AppendHeader", "AppendRow", "Saved", "Sleep",
                  "Finally", "SaveStats"})
  /\ [][ (~obs.paused /\ ~obs'.paused) =>
           (driver' = driver \/ pc = "Finally") ]_vars
  /\ [][ (~obs.paused /\ obs'.paused) =>
           (pc = "Sleep" \/ pc' = "Idle") ]_vars

C27_Witness ==
  /\ pc = "Item"
  /\ idx = 3
  /\ obs.handled = <<"data", "data">>
  /\ driver.view = "detail"
  /\ obs.paused

(* C28: back to the listing.  The next control is looked up only after     *)
(* the return to the listing: then the browser shows the listing page      *)
(* whose URL was saved before the item loop, the page last fetched, and    *)
(* every item of the page has been handled; the saved URL does not change  *)
(* during the item loop; and a click or an end of the pagination is only   *)
(* decided there, on the listing.                                          *)
C28_ListingRestored ==
  /\ [](pc = "Advance" =>
          /\ driver.view = "list"
          /\ driver.page = current_list_url
          /\ Len(obs.handled) = Len(pharmacy_list))
  /\ [](pc \in InItem \cup {"Sleep", "BackToList", "Advance"} =>
          current_list_url = obs.fetched[Len(obs.fetched)])
  /\ [][ (pc' = "Advance" /\ pc # "Advance") => pc = "BackToList" ]_vars
  /\ [][ (obs'.clicks > obs.clicks
            \/ (obs'.exit # obs.exit /\ obs'.exit \in {"nonext", "failure"})) =>
           /\ pc = "Advance"
           /\ driver.view = "list" ]_vars

C28_Witness ==
  /\ pc = "Advance"
  /\ obs.handled = <<"data", "data", "nodata">>
  /\ driver = Show("list", 1)
  /\ current_list_url = 1

----------------------------------------------------------------------------
(* The counters *)

DoneCount(data) == Cardinality({x \in DOMAIN data : data[x] = "DONE"})

\* the maps a ProgressStore can hold
ProgressMaps ==
  UNION {[D -> {"DONE"}] : D \in SUBSET Codes}

(* C29: the completion ratio.  The step that follows the end of a region,  *)
(* however the region ended, computes the ratio: the number of the codes   *)
(* mapped to DONE in the store at that moment, the number of the regions,  *)
(* and 100 times the first divided by the second; and for a total of zero  *)
(* the percentage is zero.                                                 *)
C29_CompletionRatio ==
  /\ [][ pc = "RegionEnd" =>
           \/ Interrupted
           \/ /\ progress'[1] = DoneCount(progress_data)
              /\ progress'[2] = Len(PREFECTURES)
              /\ progress'[3] * Len(PREFECTURES) = 100 * progress'[1]
              /\ progress_data' = progress_data ]_vars
  /\ [](\A data \in ProgressMaps :
          /\ calculate_progress(data, 0) = <<DoneCount(data), 0, 0>>
          /\ \A total \in {1, 2, 4, 5} :
               LET p == calculate_progress(data, total) IN
               /\ p[1] = DoneCount(data)
               /\ p[2] = total
               /\ p[3] * total = 100 * p[1])

C29_Witness ==
  /\ pc = "RegionInit"
  /\ cur = 2
  /\ obs.outcome["01"] = "Skipped"
  /\ MarkedDone(progress_data, "02")
  /\ progress = <<1, 2, 50>>

\* no counter of the second Statistics is below that of the first
CountersNotBelow(was, now) ==
  /\ now.total_pharmacies >= was.total_pharmacies
  /\ now.total_with_data >= was.total_with_data
  /\ now.total_without_data >= was.total_without_data
  /\ now.errors >= was.errors
  /\ now.skipped >= was.skipped
  /\ DOMAIN was.prefecture_stats \subseteq DOMAIN now.prefecture_stats
  /\ \A r \in DOMAIN was.prefecture_stats :
       /\ now.prefecture_stats[r].total >= was.prefecture_stats[r].total
       /\ now.prefecture_stats[r].with_data >=
            was.prefecture_stats[r].with_data

(* C30: the counters only grow.  From the start of a process to its end    *)
(* no step makes a counter of the Statistics smaller, the counters per     *)
(* region included.                                                        *)
C30_CountersMonotonic ==
  [][ (pc # "Idle" /\ pc' # "Idle") =>
        CountersNotBelow(statistics, statistics') ]_vars

C30_Witness ==
  /\ pc = "SaveStats"
  /\ statistics.errors = 1
  /\ statistics.skipped = 1
  /\ statistics.total_with_data = 1
  /\ statistics.total_without_data = 1
  /\ DOMAIN statistics.prefecture_stats = {"01"}
  /\ statistics.prefecture_stats["01"] = [total |-> 2, with_data |-> 1]

----------------------------------------------------------------------------
(* The sums of the Statistics *)

\* the sum of one counter over the regions that have counters
RegionSum(ps, field) ==
  LET s[i \in 0..Len(PREFECTURES)] ==
        IF i = 0 THEN 0
        ELSE s[i - 1] + (IF PREFECTURES[i] \in DOMAIN ps
                         THEN ps[PREFECTURES[i]][field] ELSE 0)
  IN  s[Len(PREFECTURES)]

CountersConsistent(s) ==
  /\ s.total_pharmacies = s.total_with_data + s.total_without_data
  /\ DOMAIN s.prefecture_stats \subseteq Codes
  /\ RegionSum(s.prefecture_stats, "total") = s.total_pharmacies
  /\ RegionSum(s.prefecture_stats, "with_data") = s.total_with_data
  /\ \A r \in DOMAIN s.prefecture_stats :
       s.prefecture_stats[r].with_data <= s.prefecture_stats[r].total

----------------------------------------------------------------------------
(* What the listing of a region offers *)

\* the ids on the pages of a listing
ListedIds(listing) ==
  UNION {{listing[p].items[i] : i \in 1..Len(listing[p].items)} :
           p \in 1..Len(listing)}

\* the listed ids whose detail view has a value
ValuedIds(listing) == {id \in ListedIds(listing) : DetailField(id) # ""}

(* C32: completeness without failures.  When the page loop of a region     *)
(* ends with no driver operation having failed in the run, the Ledger of   *)
(* the region holds exactly one Record for every listed id that has a      *)
(* detail value, and no Record of any other id.                            *)
C32_CompleteWithoutFailures ==
  (pc = "Complete" /\ faults = 0) =>
    /\ \A id \in ValuedIds(site[region]) :
         RecordsOf(csv_files[region], id) = 1
    /\ LedgerIds(csv_files[region]) \subseteq ValuedIds(site[region])

\* the pages of the listing fetched so far in the region
PagesFetched == {obs.fetched[i] : i \in 1..Len(obs.fetched)}

(* C33: a region marked DONE was visited whole.  When the mark is set,     *)
(* every page of the listing of the region has been fetched, no row of a   *)
(* fetched page was left out of the extracted list, and every item of the  *)
(* last list was skipped or had its detail fetch attempted (the items of   *)
(* the earlier pages were handled before the page was left).               *)
C33_DoneMeansVisitedWhole ==
  pc = "SaveProgress" =>
    /\ PagesFetched = 1..Len(site[region])
    /\ obs.missed = 0
    /\ Len(obs.handled) = Len(pharmacy_list)

(* C34: no page twice.  In the crawl of a region no page of the listing is *)
(* fetched more than once: a click on the next control that fails ends the *)
(* pagination instead of leading back to the fetch of the same page.       *)
C34_NoPageFetchedTwice ==
  \A i, j \in 1..Len(obs.fetched) :
     i # j => obs.fetched[i] # obs.fetched[j]

----------------------------------------------------------------------------
(* C35: a region marked DONE is skipped by the next run.  When a region    *)
(* starts that is DONE in the ProgressStore, the next step (unless an      *)
(* interrupt) ends it as SkippedAlreadyDone with no session setup,         *)
(* whatever its listing holds.                                             *)
C35_DoneSkippedNextRun ==
  [][ (pc = "RegionInit" /\ MarkedDone(progress_data, region))
      => \/ Interrupted
         \/ /\ pc' = "RegionEnd"
            /\ obs'.outcome[region] = "SkippedAlreadyDone" ]_vars

(* C35, amended: a region that is DONE is skipped exactly when its Ledger  *)
(* file holds more than one line, and is started again otherwise; the      *)
(* Ledger of a region whose listing has no item with a detail value never  *)
(* holds a line, so such a region is crawled again by every run.           *)
C35_DoneSkippedOnlyWithLedger ==
  /\ [][ (pc = "RegionInit" /\ MarkedDone(progress_data, region))
         => \/ Interrupted
            \/ /\ Len(csv_files[region].lines) > 1
               /\ pc' = "RegionEnd"
               /\ obs'.outcome[region] = "SkippedAlreadyDone"
            \/ /\ Len(csv_files[region].lines) <= 1
               /\ pc' = "Setup"
               /\ obs'.outcome[region] = "none" ]_vars
  /\ [](\A r \in Codes :
          ValuedIds(site[r]) = {} => csv_files[r].lines = <<>>)

C35_Witness ==
  /\ pc = "SaveProgress"
  /\ run = 2
  /\ ListedIds(site[region]) # {}
  /\ ValuedIds(site[region]) = {}
  /\ MarkedDone(obs.start.data, region)
  /\ obs.exit = "nonext"
  /\ faults = 0

----------------------------------------------------------------------------
\* the step in which an item of the list gets its outcome
ItemHandled == Len(obs'.handled) = Len(obs.handled) + 1

(* C36: one counter per item.  The step that settles an item of the list   *)
(* adds one to exactly one of skipped, with-data, without-data and errors: *)
(* skipped for an id of the dedup set, with-data for a value saved,        *)
(* without-data for a detail view without value, errors for a detail fetch *)
(* that failed; a failed fetch is not counted as without-data.             *)
C36_OneCounterPerItem ==
  [][ ItemHandled =>
        LET tag      == obs'.handled[Len(obs'.handled)]
            skipped  == statistics'.skipped - statistics.skipped
            with     == statistics'.total_with_data - statistics.total_with_data
            without  == statistics'.total_without_data
                          - statistics.total_without_data
            errors   == statistics'.errors - statistics.errors
        IN  /\ skipped >= 0 /\ with >= 0 /\ without >= 0 /\ errors >= 0
            /\ skipped + with + without + errors = 1
            /\ tag = "skip" => skipped = 1
            /\ tag = "data" => with = 1
            /\ tag = "nodata" => without = 1
            /\ tag = "fail" => (errors = 1 /\ without = 0) ]_vars

----------------------------------------------------------------------------
(* C37: safe_set_value reports the truth.  It returns True only when the   *)
(* value of the field was set: with the element missing from the page it   *)
(* makes MAX_RETRIES evaluations, never more, and returns False; and a     *)
(* session setup that succeeded has set both of its fields.                *)
C37_TrueOnlyWhenSet ==
  /\ \A evals \in AllEvalOutcomes, element_present \in BOOLEAN :
       LET r == safe_set_value(evals) IN
       /\ r.tries <= MAX_RETRIES
       /\ r.result => value_set(r, element_present)
       /\ ~element_present => (~r.result /\ r.tries = MAX_RETRIES)
  /\ (pc = "PageFetch" /\ obs.steps = SetupSteps) =>
       obs.fields = {SetupFields[i] : i \in 1..Len(SetupFields)}

====
